---- MODULE Spec2Model ----
(***************************************************************************)
(* Model of the Encyclopedia backend (server/src/main.rs): the startup     *)
(* sequence of main, the table `tabs`, and the three routes /health,       *)
(* GET /tabs (get_tabs) and POST /tabs (save_tab).  Requests are accepted  *)
(* into tasks, and each task runs its handler later, so handlers of        *)
(* concurrent requests run in any order.  A handler issues one SQL         *)
(* statement, which the database executes as one transaction.              *)
(***************************************************************************)
EXTENDS Integers, Sequences, FiniteSets, TLC

\* ------------------------------------------------------------------ bounds
\* Requests accepted during one run of the process.
MaxRequests == 3
\* Requests in flight (accepted, handler not yet run) at the same time.
MaxInFlight == 2

\* ------------------------------------------------------------- value sets
NULL == "null"
NONE == "none"

Ids == {"a", "b"}
\* (title, content, parent_id, created_at) a client submits: the two payloads
\* of the documented scenario (no parent; a parent that may or may not be
\* stored), one whose parent may be the tab itself or close a cycle, and the
\* first one again with another created_at.
Fields == {<<"T1", "C1", NULL, 1000>>, <<"T2", "C2", "b", 9999>>,
           <<"T1", "C2", "a", 1000>>, <<"T1", "C1", NULL, 9999>>}

\* struct Tab
Tab(id, title, content, parent_id, created_at) ==
    [id |-> id, title |-> title, content |-> content,
     parent_id |-> parent_id, created_at |-> created_at]

Tabs == {Tab(i, f[1], f[2], f[3], f[4]) : i \in Ids, f \in Fields}

\* ------------------------------------------------------------------ state
VARIABLES
    pc,         \* position of main: sleep, env, connect, bind, serving, terminated
    steps,      \* the startup steps main has executed, in order
    pool,       \* NONE, or "connected" once PgPoolOptions::connect succeeded
    table,      \* the table tabs: a sequence of rows (id, title, content, parent_id, created_at)
    inflight,   \* accepted requests whose handler has not run yet
    nAccepted,  \* number of requests accepted so far
    resp,       \* outcome of the handler that ran last
    panics,     \* one entry per handler task that panicked: nAccepted at the panic
    first,      \* per id, the first request whose upsert of that id committed
    last        \* per id, the most recent request whose upsert of that id committed

vars == <<pc, steps, pool, table, inflight, nAccepted, resp, panics, first, last>>

\* ------------------------------------------------------- the SQL statements
\* Columns of the table, in the order both statements name them.
Columns == <<"id", "title", "content", "parent_id", "created_at">>

ColumnIndex(name) == CHOOSE i \in 1..Len(Columns) : Columns[i] = name

\* row.get(name)
Get(row, name) == row[ColumnIndex(name)]

\* The values save_tab binds to $1..$5.
Binds(tab) == <<tab.id, tab.title, tab.content, tab.parent_id, tab.created_at>>

HasId(tbl, id) == \E i \in 1..Len(tbl) : Get(tbl[i], "id") = id

\* A plain INSERT of every upsert, as if the statement had no ON CONFLICT clause
\* and the table no key.
UpsertAlwaysInsert(tbl, args) == Append(tbl, <<args[1], args[2], args[3], args[4], args[5]>>)

\* ON CONFLICT ... SET that also overwrites created_at.
UpsertOverwriteCreatedAt(tbl, args) ==
    IF HasId(tbl, args[1])
    THEN [i \in 1..Len(tbl) |->
            IF Get(tbl[i], "id") = args[1]
            THEN <<args[1], args[2], args[3], args[4], args[5]>>
            ELSE tbl[i]]
    ELSE Append(tbl, <<args[1], args[2], args[3], args[4], args[5]>>)

\* ON CONFLICT ... SET that leaves content out of the update clause.
UpsertKeepContent(tbl, args) ==
    IF HasId(tbl, args[1])
    THEN [i \in 1..Len(tbl) |->
            IF Get(tbl[i], "id") = args[1]
            THEN <<tbl[i][1], args[2], tbl[i][3], args[4], tbl[i][5]>>
            ELSE tbl[i]]
    ELSE Append(tbl, <<args[1], args[2], args[3], args[4], args[5]>>)

\* An upsert that stores NULL for a parent_id that names no stored row.
UpsertCheckParent(tbl, args) ==
    LET p == IF args[4] = NULL \/ HasId(tbl, args[4]) THEN args[4] ELSE NULL IN
    IF HasId(tbl, args[1])
    THEN [i \in 1..Len(tbl) |->
            IF Get(tbl[i], "id") = args[1]
            THEN <<tbl[i][1], args[2], args[3], p, tbl[i][5]>>
            ELSE tbl[i]]
    ELSE Append(tbl, <<args[1], args[2], args[3], p, args[5]>>)

\* An upsert written as DELETE of everything followed by INSERT.
UpsertReplaceAll(tbl, args) == <<<<args[1], args[2], args[3], args[4], args[5]>>>>

\* INSERT INTO tabs (id, title, content, parent_id, created_at)
\* VALUES ($1, $2, $3, $4, $5)
\* ON CONFLICT (id) DO UPDATE SET title = $2, content = $3, parent_id = $4
Upsert(tbl, args) ==
    IF HasId(tbl, args[1])
    THEN [i \in 1..Len(tbl) |->
            IF Get(tbl[i], "id") = args[1]
            THEN <<tbl[i][1], args[2], args[3], args[4], tbl[i][5]>>
            ELSE tbl[i]]
    ELSE Append(tbl, <<args[1], args[2], args[3], args[4], args[5]>>)

\* SELECT id, title, content, parent_id, created_at FROM tabs: the rows in
\* any order, as the statement has no ORDER BY.
Orders(n) == {p \in [1..n -> 1..n] : \A i, j \in 1..n : p[i] = p[j] => i = j}

SelectAll(tbl) == {[i \in 1..Len(tbl) |-> tbl[p[i]]] : p \in Orders(Len(tbl))}

\* A row mapping that reads the title column into content and back.
RowToTabSwapped(row) ==
    Tab(Get(row, "id"), Get(row, "content"), Get(row, "title"),
        Get(row, "parent_id"), Get(row, "created_at"))

\* The closure of rows.iter().map(...) in get_tabs.
RowToTab(row) ==
    Tab(Get(row, "id"), Get(row, "title"), Get(row, "content"),
        Get(row, "parent_id"), Get(row, "created_at"))

MapRows(rows) == [i \in 1..Len(rows) |-> RowToTab(rows[i])]

\* ---------------------------------------------------------------- requests
\* The body of a request that carries none.
NoTab == Tab(NONE, NONE, NONE, NONE, 0)

Task(n, kind, tab) == [n |-> n, kind |-> kind, tab |-> tab]

NoTask == Task(0, NONE, NoTab)

\* What the client of task gets: the status line and the body; storage is
\* whether the handler's statement was executed.  A task that panicked sends
\* nothing: status "aborted".
Response(task, storage, status, body) ==
    [task |-> task, storage |-> storage, status |-> status, body |-> body]

NoResponse == Response(NoTask, TRUE, NONE, NONE)

NoCommit == [id \in Ids |-> NoTask]

Init ==
    /\ pc = "sleep"
    /\ steps = <<>>
    /\ pool = NONE
    /\ table = <<>>
    /\ inflight = {}
    /\ nAccepted = 0
    /\ resp = NoResponse
    /\ panics = <<>>
    /\ first = NoCommit
    /\ last = NoCommit

\* ------------------------------------------------------------------ main
\* tokio::time::sleep(Duration::from_secs(2)).await
Sleep ==
    /\ pc = "sleep"
    /\ pc' = "env"
    /\ steps' = Append(steps, "sleep")
    /\ UNCHANGED <<pool, table, inflight, nAccepted, resp, panics, first, last>>

\* std::env::var("DATABASE_URL").expect(...)
ReadEnv(present) ==
    /\ pc = "env"
    /\ pc' = IF present THEN "connect" ELSE "terminated"
    /\ steps' = Append(steps, "env")
    /\ UNCHANGED <<pool, table, inflight, nAccepted, resp, panics, first, last>>

\* A connect whose failure is ignored: main goes on to bind without a pool.
ConnectPoolIgnoreFailure(ok) ==
    /\ pc = "connect"
    /\ pc' = "bind"
    /\ pool' = IF ok THEN "connected" ELSE NONE
    /\ steps' = Append(steps, "connect")
    /\ UNCHANGED <<table, inflight, nAccepted, resp, panics, first, last>>

\* PgPoolOptions::new().max_connections(5).connect(&database_url).await.expect(...)
ConnectPool(ok) ==
    /\ pc = "connect"
    /\ pc' = IF ok THEN "bind" ELSE "terminated"
    /\ pool' = IF ok THEN "connected" ELSE NONE
    /\ steps' = Append(steps, "connect")
    /\ UNCHANGED <<table, inflight, nAccepted, resp, panics, first, last>>

\* TcpListener::bind("0.0.0.0:8080").await.unwrap(), then axum::serve
Bind(ok) ==
    /\ pc = "bind"
    /\ pc' = IF ok THEN "serving" ELSE "terminated"
    /\ steps' = Append(steps, "bind")
    /\ UNCHANGED <<pool, table, inflight, nAccepted, resp, panics, first, last>>

\* ----------------------------------------------------------------- router
\* axum::serve accepts a request and spawns the task that runs its handler.
Accept(kind, tab) ==
    /\ pc = "serving"
    /\ nAccepted < MaxRequests
    /\ Cardinality(inflight) < MaxInFlight
    /\ nAccepted' = nAccepted + 1
    /\ inflight' = inflight \cup {Task(nAccepted + 1, kind, tab)}
    /\ UNCHANGED <<pc, steps, pool, table, resp, panics, first, last>>

AcceptHealth == Accept("health", NoTab)
AcceptList == Accept("list", NoTab)
AcceptSave == \E tab \in Tabs : Accept("save", tab)

\* get(|| async { "Backend is healthy!" })
Health(t) ==
    /\ pc = "serving"
    /\ t \in inflight
    /\ t.kind = "health"
    /\ inflight' = inflight \ {t}
    /\ resp' = Response(t, TRUE, "200", "Backend is healthy!")
    /\ UNCHANGED <<pc, steps, pool, table, nAccepted, panics, first, last>>

\* A list handler that answers a storage failure with an error status.
GetTabsErrorStatus(t, ok) ==
    /\ pc = "serving"
    /\ t \in inflight
    /\ t.kind = "list"
    /\ inflight' = inflight \ {t}
    /\ \E rows \in (IF ok THEN SelectAll(table) ELSE {<<>>}) :
         resp' = Response(t, ok, IF ok THEN "200" ELSE "500", MapRows(rows))
    /\ UNCHANGED <<pc, steps, pool, table, nAccepted, panics, first, last>>

\* A list handler that fetches one row (fetch_optional) instead of all rows.
GetTabsFirstRow(t, ok) ==
    /\ pc = "serving"
    /\ t \in inflight
    /\ t.kind = "list"
    /\ inflight' = inflight \ {t}
    /\ \E rows \in (IF ok THEN SelectAll(table) ELSE {<<>>}) :
         resp' = Response(t, ok, "200", MapRows(SubSeq(rows, 1, 1)))
    /\ UNCHANGED <<pc, steps, pool, table, nAccepted, panics, first, last>>

\* get_tabs: fetch_all(&pool).await.unwrap_or_default(), map, Json(tabs).
\* ok is whether the storage executed the SELECT.
GetTabs(t, ok) ==
    /\ pc = "serving"
    /\ t \in inflight
    /\ t.kind = "list"
    /\ inflight' = inflight \ {t}
    /\ \E rows \in (IF ok THEN SelectAll(table) ELSE {<<>>}) :
         resp' = Response(t, ok, "200", MapRows(rows))
    /\ UNCHANGED <<pc, steps, pool, table, nAccepted, panics, first, last>>

\* The bookkeeping of a committed upsert of task t.
Commit(t) ==
    /\ first' = [first EXCEPT ![t.tab.id] = IF @ = NoTask THEN t ELSE @]
    /\ last' = [last EXCEPT ![t.tab.id] = t]

\* A save handler whose failed statement takes the whole process down.
SaveTabAbortProcess(t, ok) ==
    /\ pc = "serving"
    /\ t \in inflight
    /\ t.kind = "save"
    /\ IF ok
       THEN /\ table' = Upsert(table, Binds(t.tab))
            /\ resp' = Response(t, TRUE, "200", "OK")
            /\ inflight' = inflight \ {t}
            /\ Commit(t)
            /\ UNCHANGED <<pc, panics>>
       ELSE /\ resp' = Response(t, FALSE, "aborted", NONE)
            /\ panics' = Append(panics, nAccepted)
            /\ pc' = "terminated"
            /\ inflight' = {}
            /\ UNCHANGED <<table, first, last>>
    /\ UNCHANGED <<steps, pool, nAccepted>>

\* A save handler that drops the statement's result and acknowledges anyway.
SaveTabIgnoreError(t, ok) ==
    /\ pc = "serving"
    /\ t \in inflight
    /\ t.kind = "save"
    /\ inflight' = inflight \ {t}
    /\ resp' = Response(t, ok, "200", "OK")
    /\ IF ok
       THEN /\ table' = Upsert(table, Binds(t.tab))
            /\ Commit(t)
       ELSE UNCHANGED <<table, first, last>>
    /\ UNCHANGED <<pc, steps, pool, nAccepted, panics>>

\* save_tab: execute(&pool).await.expect("Failed to save tab"), then "OK".
\* ok is whether the storage executed the statement; on failure expect
\* panics, which unwinds the task that runs the handler and no other.
SaveTab(t, ok) ==
    /\ pc = "serving"
    /\ t \in inflight
    /\ t.kind = "save"
    /\ inflight' = inflight \ {t}
    /\ IF ok
       THEN /\ table' = Upsert(table, Binds(t.tab))
            /\ resp' = Response(t, TRUE, "200", "OK")
            /\ Commit(t)
            /\ UNCHANGED panics
       ELSE /\ resp' = Response(t, FALSE, "aborted", NONE)
            /\ panics' = Append(panics, nAccepted)
            /\ UNCHANGED <<table, first, last>>
    /\ UNCHANGED <<pc, steps, pool, nAccepted>>

Next ==
    \/ Sleep
    \/ \E present \in BOOLEAN : ReadEnv(present)
    \/ \E ok \in BOOLEAN : ConnectPool(ok)
    \/ \E ok \in BOOLEAN : Bind(ok)
    \/ AcceptHealth
    \/ AcceptList
    \/ AcceptSave
    \/ \E t \in inflight : Health(t)
    \/ \E t \in inflight, ok \in BOOLEAN : GetTabs(t, ok)
    \/ \E t \in inflight, ok \in BOOLEAN : SaveTab(t, ok)

Spec == Init /\ [][Next]_vars

\* ------------------------------------------------------------- properties
\* Columns of a stored row, by position in the table definition.
RowId(row) == row[1]
RowTitle(row) == row[2]
RowContent(row) == row[3]
RowParent(row) == row[4]
RowCreatedAt(row) == row[5]

StoredIds(tbl) == {RowId(tbl[i]) : i \in 1..Len(tbl)}
RowsOf(id) == {i \in 1..Len(table) : RowId(table[i]) = id}
Committed(id) == last[id] # NoTask

\* The handler that ran in this step (resp' is its outcome).
Handled(kind) == resp'.task.n # resp.task.n /\ resp'.task.kind = kind

\* C1: every stored row has the created_at submitted by the first committed
\* upsert of its id, and the title, content and parent_id submitted by the
\* most recent committed upsert of its id; so an upsert of an existing id
\* with another created_at leaves the stored created_at alone.
C1_CreatedAtOfFirstFieldsOfLast ==
    \A i \in 1..Len(table) :
        LET row == table[i]
            id == RowId(row)
        IN /\ Committed(id)
           /\ RowCreatedAt(row) = first[id].tab.created_at
           /\ RowTitle(row) = last[id].tab.title
           /\ RowContent(row) = last[id].tab.content
           /\ RowParent(row) = last[id].tab.parent_id

\* An existing id was upserted again with another title and another created_at.
C1_Witness ==
    \E i \in 1..Len(table) :
        LET id == RowId(table[i])
        IN /\ first[id].n # last[id].n
           /\ last[id].tab.created_at # first[id].tab.created_at
           /\ last[id].tab.title # first[id].tab.title
           /\ RowCreatedAt(table[i]) = 1000

\* C2: a list answered with the storage reachable returns, in some order,
\* exactly the stored rows, one record per row, and for every id upserted so
\* far a record with the fields of the latest committed upsert of that id
\* and the created_at of the first.
C2_ListAfterSaveRoundTrip ==
    (resp.task.kind = "list" /\ resp.storage) =>
        /\ resp.status = "200"
        /\ Len(resp.body) = Len(table)
        /\ \A i \in 1..Len(table) : \E k \in 1..Len(resp.body) :
              resp.body[k] = [id |-> RowId(table[i]), title |-> RowTitle(table[i]),
                              content |-> RowContent(table[i]),
                              parent_id |-> RowParent(table[i]),
                              created_at |-> RowCreatedAt(table[i])]
        /\ \A id \in Ids : Committed(id) =>
              \E k \in 1..Len(resp.body) :
                  resp.body[k] = [id |-> id, title |-> last[id].tab.title,
                                  content |-> last[id].tab.content,
                                  parent_id |-> last[id].tab.parent_id,
                                  created_at |-> first[id].tab.created_at]

\* A list right after the upsert of a tab with a new id returned that tab.
C2_Witness ==
    /\ resp.task.kind = "list" /\ resp.storage
    /\ \E id \in Ids :
          /\ Committed(id)
          /\ first[id] = last[id]
          /\ last[id].n + 1 = resp.task.n
          /\ \E k \in 1..Len(resp.body) : resp.body[k] = last[id].tab

\* C3: the table never holds two rows with one id, and an upsert whose
\* payload is the payload of the latest committed upsert of that id leaves
\* the table as it is.
C3_OneRowPerIdAndIdempotent ==
    [][/\ \A i, j \in 1..Len(table') :
             RowId(table'[i]) = RowId(table'[j]) => i = j
       /\ (Handled("save") /\ resp'.storage /\ last[resp'.task.tab.id].tab = resp'.task.tab)
             => table' = table]_vars

\* Two requests were accepted, both upserts with the same payload, and both
\* committed.
C3_Witness ==
    /\ nAccepted = 2 /\ inflight = {} /\ panics = <<>>
    /\ Len(table) = 1
    /\ \E id \in Ids : first[id].n = 1 /\ last[id].n = 2 /\ first[id].tab = last[id].tab

\* C4: a list whose SELECT the storage failed is answered 200 with an empty
\* array, which is the answer of a list on an empty table, and the step
\* leaves the table as it is.
C4_ListFailureIsEmpty200 ==
    [][(Handled("list") /\ (~resp'.storage \/ table = <<>>))
          => /\ resp'.status = "200"
             /\ resp'.body = <<>>
             /\ table' = table]_vars

\* A list failed while the table held a row.
C4_Witness ==
    /\ resp.task.kind = "list"
    /\ ~resp.storage
    /\ Len(table) > 0

\* C5 as stated: once an upsert has failed, the process has terminated.
C5_FailedUpsertAbortsProcess ==
    panics # <<>> => pc = "terminated"

\* C5, amended: a failed upsert panics its own task only; the process keeps
\* its pool and keeps serving.
C5_FailedUpsertKeepsServing ==
    panics # <<>> => (pc = "serving" /\ pool = "connected")

\* A health request accepted after a panic was answered.
C5_Witness ==
    /\ panics # <<>>
    /\ resp.task.kind = "health"
    /\ resp.status = "200"
    /\ resp.task.n > panics[1]

\* C6: the step in which an upsert fails sends no acknowledgement, leaves the
\* table as it is and leaves every other request in flight with the process
\* serving; and "OK" is the answer only of an upsert whose statement was
\* executed and whose row is stored.
C6_FailedUpsertFatalToTaskOnly ==
    [][/\ Len(panics') > Len(panics) =>
             /\ resp'.task.kind = "save"
             /\ resp'.status = "aborted"
             /\ resp'.body # "OK"
             /\ table' = table
             /\ inflight' = inflight \ {resp'.task}
             /\ pc' = "serving"
       /\ Handled("save") =>
             /\ resp'.storage <=> resp'.status = "200"
             /\ ~resp'.storage <=> Len(panics') = Len(panics) + 1
             /\ resp'.status = "200" =>
                   /\ resp'.body = "OK"
                   /\ \E i \in 1..Len(table') :
                         /\ RowId(table'[i]) = resp'.task.tab.id
                         /\ RowTitle(table'[i]) = resp'.task.tab.title]_vars

\* An upsert accepted after another upsert's panic was acknowledged.
C6_Witness ==
    /\ panics # <<>>
    /\ resp.task.kind = "save"
    /\ resp.status = "200"
    /\ resp.task.n > panics[1]

\* C7: whatever order concurrent upserts of one id commit in, the id has
\* exactly one row, whose title, content and parent_id are together those of
\* the upsert that committed last and whose created_at is that of the upsert
\* that committed first; and every record of a list is such a row.
C7_LastCommitWins ==
    /\ \A id \in Ids : Committed(id) =>
          /\ Cardinality(RowsOf(id)) = 1
          /\ \A i \in RowsOf(id) :
                /\ <<RowTitle(table[i]), RowContent(table[i]), RowParent(table[i])>>
                      = <<last[id].tab.title, last[id].tab.content, last[id].tab.parent_id>>
                /\ RowCreatedAt(table[i]) = first[id].tab.created_at
    /\ (resp.task.kind = "list" /\ resp.storage) =>
          \A k \in 1..Len(resp.body) :
              LET rec == resp.body[k]
              IN /\ Committed(rec.id)
                 /\ <<rec.title, rec.content, rec.parent_id>>
                       = <<last[rec.id].tab.title, last[rec.id].tab.content,
                           last[rec.id].tab.parent_id>>
                 /\ rec.created_at = first[rec.id].tab.created_at

\* Two upserts of one id with different fields committed in the order
\* opposite to their arrival, and a list then showed the row.
C7_Witness ==
    /\ resp.task.kind = "list" /\ resp.storage
    /\ \E id \in Ids :
          /\ Committed(id)
          /\ last[id].n < first[id].n
          /\ last[id].tab.title # first[id].tab.title
          /\ last[id].tab.content # first[id].tab.content
          /\ last[id].tab.created_at # first[id].tab.created_at
          /\ Len(resp.body) = 1

\* C8: an upsert the storage executed is acknowledged and its row holds the
\* submitted parent_id as it was sent, null or not, stored or not; and a list
\* shows every row's parent_id as stored.
C8_ParentStoredUnchecked ==
    /\ (resp.task.kind = "save" /\ resp.storage) =>
          /\ resp.status = "200"
          /\ \E i \in 1..Len(table) :
                /\ RowId(table[i]) = resp.task.tab.id
                /\ RowParent(table[i]) = resp.task.tab.parent_id
    /\ (resp.task.kind = "list" /\ resp.storage) =>
          \A i \in 1..Len(table) : \E k \in 1..Len(resp.body) :
              /\ resp.body[k].id = RowId(table[i])
              /\ resp.body[k].parent_id = RowParent(table[i])

\* A list showed a row whose parent_id names an id that is not stored.
C8_Witness ==
    /\ resp.task.kind = "list" /\ resp.storage
    /\ \E k \in 1..Len(resp.body) :
          /\ resp.body[k].parent_id # NULL
          /\ resp.body[k].parent_id \notin StoredIds(table)

\* C9: main runs sleep, env, connect, bind in this order, each once; it
\* serves, and a request is accepted or handled, only after all four with the
\* pool connected; and a process terminated during startup has accepted no
\* request, a failed connect being followed by nothing.
StartupOrder == <<"sleep", "env", "connect", "bind">>

C9_StartupOrder ==
    /\ Len(steps) <= Len(StartupOrder)
    /\ steps = SubSeq(StartupOrder, 1, Len(steps))
    /\ (pc = "serving" \/ nAccepted > 0 \/ inflight # {} \/ resp.task.n # 0)
          => (steps = StartupOrder /\ pool = "connected" /\ pc = "serving")
    /\ pc = "terminated"
          => (nAccepted = 0 /\ inflight = {} /\ resp.task.n = 0)
    /\ (Len(steps) >= 3 /\ pool # "connected")
          => (pc = "terminated" /\ Len(steps) = 3)

\* The connection attempt failed and the process terminated.
C9_Witness ==
    /\ pc = "terminated"
    /\ steps = <<"sleep", "env", "connect">>
    /\ pool = NONE

\* C10: no step removes a stored id; the table changes only in the step of
\* an upsert the storage executed, and then every row of another id stays
\* as it was.
C10_NoDeletion ==
    [][/\ StoredIds(table) \subseteq StoredIds(table')
       /\ table' # table =>
             /\ Handled("save")
             /\ resp'.storage
             /\ \A i \in 1..Len(table) :
                   RowId(table[i]) # resp'.task.tab.id
                      => \E j \in 1..Len(table') : table'[j] = table[i]]_vars

\* With a row stored, an upsert failed and a list was answered.
C10_Witness ==
    /\ Len(table) = 1
    /\ Len(panics) = 1
    /\ resp.task.kind = "list"
    /\ nAccepted = 3

====
